---- MODULE Spec2Model ----
(***************************************************************************)
(* Model of flowcode-generation-func.py: generate_flowcodes and its five   *)
(* stages (_error_checking, _generate_campaigns, _preprocess_urls,         *)
(* _generate_urls, _process_url_responses, _generate_svgs).                *)
(*                                                                         *)
(* The remote service and the file system are the environment: every       *)
(* request is answered by a nondeterministic choice among the answers the  *)
(* service can give, and the output directory starts in one of a few       *)
(* states.  A request and its answer are one step, because requests.post   *)
(* and requests.get block until they return or raise.                      *)
(*                                                                         *)
(* Python values of the two dataset columns are records [t, v]: t is the   *)
(* Python type and v is the text that an f-string produces for the value.  *)
(* The dataset columns are taken to be of dtype object, so that a value    *)
(* is stored and formatted as it was given.                                *)
(***************************************************************************)
EXTENDS Integers, Sequences, FiniteSets, TLC

(***************************************************************************)
(* Bounds of the model.                                                    *)
(***************************************************************************)
\* largest number of rows of the input table
MaxRows == 2

(***************************************************************************)
(* Python values and their formatting.                                     *)
(***************************************************************************)
PyStr(s) == [t |-> "str", v |-> s]
PyInt(s) == [t |-> "int", v |-> s]
\* a missing value of the campaign column (float nan)
NaN == [t |-> "float", v |-> "nan"]

\* f"{x}"
Format(x) == x.v

\* x == y, element by element as pandas compares a column with a scalar:
\* a missing value equals nothing, itself included
PyEq(x, y) == x = y /\ x # NaN /\ y # NaN

\* values of the campaign column: 1 and "1" are different values with the
\* same text
CampaignValues == {PyStr("A"), PyStr("1"), PyInt("1"), NaN}
\* values of the id column
IdValues == {PyStr("x1"), PyStr("x2")}

\* the column names of the call at the end of the source file
id_column_name == "ad_id"
campaign_column_name == "xyz_campaign_id"
redirect_url == "http://www.flowcode.com"

\* a row of the table after dataset.loc[:, [id_column_name, campaign_column_name]]
Row(i, c) == (id_column_name :> i) @@ (campaign_column_name :> c)
Rows == {Row(i, c) : i \in IdValues, c \in CampaignValues}

SeqsUpTo(S, n) == UNION {[1..k -> S] : k \in 0..n}

(***************************************************************************)
(* Client identifiers: a string is a tuple of characters.                  *)
(***************************************************************************)
SourceId ==
    <<"d","9","2","9","d","4","6","a","-","7","e","b","a","-","1","1","e","c","-","9","0","d","6","-","0","2","4","2","a","c","1","2","0","0","0","3">>
NonHexId ==
    <<"g","9","2","9","d","4","6","a","-","7","e","b","a","-","1","1","e","c","-","9","0","d","6","-","0","2","4","2","a","c","1","2","0","0","0","3">>
UpperId ==
    <<"D","9","2","9","D","4","6","A","-","7","E","B","A","-","1","1","E","C","-","9","0","D","6","-","0","2","4","2","A","C","1","2","0","0","0","3">>
ShiftedDashId ==
    <<"d","9","2","9","d","4","6","-","a","7","e","b","a","-","1","1","e","c","-","9","0","d","6","-","0","2","4","2","a","c","1","2","0","0","0","3">>
ShortId ==
    <<"d","9","2","9","d","4","6","a","-","7","e","b","a","-","1","1","e","c","-","9","0","d","6","-","0","2","4","2","a","c","1","2","0","0","0">>
LongId ==
    <<"d","9","2","9","d","4","6","a","-","7","e","b","a","-","1","1","e","c","-","9","0","d","6","-","0","2","4","2","a","c","1","2","0","0","0","3","0">>

StrArg(chars) == [is_str |-> TRUE, chars |-> chars]
\* a client id that is no string (an int, None)
NotAString == [is_str |-> FALSE, chars |-> <<>>]

ClientIds ==
    {StrArg(SourceId), StrArg(NonHexId), StrArg(UpperId), StrArg(ShiftedDashId),
     StrArg(ShortId), StrArg(LongId), StrArg(<<>>), NotAString}

Digits == {"0","1","2","3","4","5","6","7","8","9"}
LowerLetters ==
    {"a","b","c","d","e","f","g","h","i","j","k","l","m",
     "n","o","p","q","r","s","t","u","v","w","x","y","z"}

\* one item of the regular expression: a character class repeated n times
Item(class, n) == [class |-> class, n |-> n]

\* "[a-z0-9]{8}-[a-z0-9]{4}-[a-z0-9]{4}-[a-z0-9]{4}-[a-z0-9]{12}"
regex ==
    <<Item(LowerLetters \cup Digits, 8), Item({"-"}, 1),
      Item(LowerLetters \cup Digits, 4), Item({"-"}, 1),
      Item(LowerLetters \cup Digits, 4), Item({"-"}, 1),
      Item(LowerLetters \cup Digits, 4), Item({"-"}, 1),
      Item(LowerLetters \cup Digits, 12)>>

\* re.fullmatch(pattern, chars): the items consume the whole string, each
\* item exactly its n characters
RECURSIVE fullmatch(_, _)
fullmatch(pattern, chars) ==
    IF pattern = <<>> THEN chars = <<>>
    ELSE LET item == Head(pattern)
         IN  /\ Len(chars) >= item.n
             /\ \A k \in 1..item.n : chars[k] \in item.class
             /\ fullmatch(Tail(pattern), SubSeq(chars, item.n + 1, Len(chars)))

(***************************************************************************)
(* The dataset argument.  is_dataframe is isinstance(dataset,              *)
(* pd.DataFrame), columns is dataset.columns, rows are the rows in table   *)
(* order.                                                                  *)
(***************************************************************************)
Dataset(isdf, cols, rows) == [is_dataframe |-> isdf, columns |-> cols, rows |-> rows]

\* re.match(pattern, chars): the items consume a prefix of the string
RECURSIVE match(_, _)
match(pattern, chars) ==
    IF pattern = <<>> THEN TRUE
    ELSE LET item == Head(pattern)
         IN  /\ Len(chars) >= item.n
             /\ \A k \in 1..item.n : chars[k] \in item.class
             /\ match(Tail(pattern), SubSeq(chars, item.n + 1, Len(chars)))

\* _error_checking with re.match in place of re.fullmatch
_error_checking_match(cid, ds, id_col, campaign_col) ==
    IF ~cid.is_str THEN "client_id_not_a_string"
    ELSE IF ~match(regex, cid.chars) THEN "client_id_format"
    ELSE IF ~ds.is_dataframe THEN "dataset_not_a_dataframe"
    ELSE IF id_col \notin ds.columns THEN "id_column"
    ELSE IF campaign_col \notin ds.columns THEN "campaigns_column"
    ELSE "ok"

\* _error_checking: the name of the exception raised, or "ok"
_error_checking(cid, ds, id_col, campaign_col) ==
    IF ~cid.is_str THEN "client_id_not_a_string"
    ELSE IF ~fullmatch(regex, cid.chars) THEN "client_id_format"
    ELSE IF ~ds.is_dataframe THEN "dataset_not_a_dataframe"
    ELSE IF id_col \notin ds.columns THEN "id_column"
    ELSE IF campaign_col \notin ds.columns THEN "campaigns_column"
    ELSE "ok"

\* dataset[column]
Column(rows, col) == [k \in 1..Len(rows) |-> rows[k][col]]

\* Series.unique(): the distinct values in order of first appearance;
\* missing values count as one value
RECURSIVE unique(_)
unique(values) ==
    IF values = <<>> THEN <<>>
    ELSE LET front == unique(SubSeq(values, 1, Len(values) - 1))
             last  == values[Len(values)]
         IN  IF \E k \in 1..Len(front) : front[k] = last
             THEN front
             ELSE Append(front, last)

\* dataset.loc[dataset[campaign_column_name] == campaign]
RowsOf(rows, campaign_col, campaign) ==
    SelectSeq(rows, LAMBDA row : PyEq(row[campaign_col], campaign))

\* the record appended for one row when pass_id_as_argument is true
UrlRequest(row, id_col, redirect) ==
    [id       |-> Format(row[id_col]),
     url_type |-> "URL",
     url      |-> redirect \o "/id=" \o Format(row[id_col])]

\* _preprocess_urls.  With pass_id_as_argument false the name id_string is
\* never bound, and the first row that is iterated raises UnboundLocalError
\* at the use of id_string in the record.
_preprocess_urls(cs, id_col, campaign_col, redirect, rows, pass_id) ==
    LET campaign_data == [k \in 1..Len(cs) |-> RowsOf(rows, campaign_col, cs[k])]
    IN  IF ~pass_id /\ \E k \in 1..Len(cs) : campaign_data[k] # <<>>
        THEN [raised |-> TRUE, flowcodes |-> <<>>]
        ELSE [raised |-> FALSE,
              flowcodes |->
                  [k \in 1..Len(cs) |->
                      [j \in 1..Len(campaign_data[k]) |->
                          UrlRequest(campaign_data[k][j], id_col, redirect)]]]

(***************************************************************************)
(* Answers of the remote service.                                          *)
(***************************************************************************)
\* raise_for_status() passes
OK == 200
\* the status the two except clauses compare with
Conflict == 409
\* statuses for which raise_for_status() raises HTTPError
ErrorStatuses == {Conflict, 400, 500}
\* requests raised before any status arrived (ConnectionError, Timeout)
NoResponse == 0
PostOutcomes == {OK, NoResponse} \cup ErrorStatuses

\* the address at which the service serves the image of the k-th code of
\* the batch sent at position index of the run
ImageUrl(batch, k) == "https://img/" \o ToString(batch) \o "/" \o ToString(k)
\* a response body: JSON holding a list of entries, or something that
\* response.json() rejects
NotJson == [json |-> FALSE, entries |-> <<>>]
Json(entries) == [json |-> TRUE, entries |-> entries]
NoBody == NotJson
\* The bodies the service can answer a batch of URL requests with: one entry
\* per request, in the order of the requests and under the id of the request,
\* each with one image or (has_image false) with none; or a body that is no
\* JSON.
Bodies(batch, urls) ==
    {NotJson} \cup
    {Json([k \in 1..Len(urls) |->
              [id     |-> urls[k].id,
               images |-> IF has_image[k] THEN <<[url |-> ImageUrl(batch, k)]>> ELSE <<>>]])
        : has_image \in [1..Len(urls) -> BOOLEAN]}

\* what a GET of an image URL returns: the bytes served at that URL
Content(url) == "svg of " \o url

(***************************************************************************)
(* Python dicts: insertion-ordered lists of [key, value]; assigning to a   *)
(* key that is present replaces its value in place.                        *)
(***************************************************************************)
HasKey(dict, key) == \E k \in 1..Len(dict) : dict[k].key = key
DictSet(dict, key, value) ==
    IF HasKey(dict, key)
    THEN [k \in 1..Len(dict) |->
             IF dict[k].key = key THEN [key |-> key, value |-> value] ELSE dict[k]]
    ELSE Append(dict, [key |-> key, value |-> value])
DictGet(dict, key) == dict[CHOOSE k \in 1..Len(dict) : dict[k].key = key].value

\* _process_url_responses: raises when a body is not JSON or an entry has no
\* image; otherwise keeps, per campaign name, id and first image URL
_process_url_responses(resps) ==
    IF \E k \in 1..Len(resps) : ~resps[k].value.json
    THEN [raised |-> TRUE, generated_urls |-> <<>>]
    ELSE IF \E k \in 1..Len(resps) :
              \E j \in 1..Len(resps[k].value.entries) :
                  resps[k].value.entries[j].images = <<>>
    THEN [raised |-> TRUE, generated_urls |-> <<>>]
    ELSE [raised |-> FALSE,
          generated_urls |->
              [k \in 1..Len(resps) |->
                  [key   |-> resps[k].key,
                   value |-> [j \in 1..Len(resps[k].value.entries) |->
                                 [id      |-> resps[k].value.entries[j].id,
                                  qr_code |-> resps[k].value.entries[j].images[1].url]]]]]

(***************************************************************************)
(* The file system under parent_dir.                                       *)
(***************************************************************************)
parent_dir == "/out"
\* root_dir = parent_dir + '/flowcode_images'
root_dir == parent_dir \o "/flowcode_images"
\* campaign_dir = root_dir + f'/{campaign}'
CampaignDir(name) == root_dir \o "/" \o name
\* file_url = "".join([campaign_dir, f"/{id}.svg"])
FileUrl(name, id) == CampaignDir(name) \o "/" \o id \o ".svg"

NoFiles == [path \in {} |-> ""]
\* the output directory before the run: never used, holding an empty images
\* folder, or holding the folder of campaign "A" from an earlier run
Disks ==
    {[dirs |-> {parent_dir}, files |-> NoFiles],
     [dirs |-> {parent_dir, root_dir}, files |-> NoFiles],
     [dirs |-> {parent_dir, root_dir, CampaignDir("A")}, files |-> NoFiles]}
FreshDisk == [dirs |-> {parent_dir}, files |-> NoFiles]

(***************************************************************************)
(* The calls of generate_flowcodes that the model starts from: every       *)
(* client id and every shape of dataset with a table of at most one row on *)
(* a fresh disk, and the well-formed calls with every table and disk.      *)
(***************************************************************************)
Tables == SeqsUpTo(Rows, MaxRows)
SmallTables == {rows \in Tables : Len(rows) <= 1}
AllColumns == {id_column_name, campaign_column_name}

Calls ==
    [client_id : ClientIds,
     dataset : {Dataset(isdf, cols, rows) :
                   isdf \in BOOLEAN, cols \in SUBSET AllColumns, rows \in SmallTables},
     pass_id_as_argument : BOOLEAN,
     disk : {FreshDisk}]
    \cup
    [client_id : {StrArg(SourceId)},
     dataset : {Dataset(TRUE, AllColumns, rows) : rows \in Tables},
     pass_id_as_argument : BOOLEAN,
     disk : Disks]

(***************************************************************************)
(* State.                                                                  *)
(***************************************************************************)
VARIABLES
    call,            \* the arguments of generate_flowcodes and the disk it started on
    pc,              \* the statement of generate_flowcodes that runs next
    raised,          \* the exception that ended the run, "" while there is none
    campaigns,       \* dataset[campaign_column_name].unique()
    index,           \* position of the running loop
    flowcodes,       \* result of _preprocess_urls
    responses,       \* the dict built by _generate_urls
    generated_urls,  \* result of _process_url_responses
    position,        \* position in urls inside _generate_svgs
    disk,            \* directories and files under parent_dir
    log,             \* requests issued and file system calls made, in order
    returned         \* the value generate_flowcodes returned, "" before

vars == <<call, pc, raised, campaigns, index, flowcodes, responses,
          generated_urls, position, disk, log, returned>>

Event(op, target, status, body) ==
    [op |-> op, target |-> target, status |-> status, body |-> body]

Init ==
    /\ call \in Calls
    /\ pc = "error_checking"
    /\ raised = ""
    /\ campaigns = <<>>
    /\ index = 1
    /\ flowcodes = <<>>
    /\ responses = <<>>
    /\ generated_urls = <<>>
    /\ position = 1
    /\ disk = call.disk
    /\ log = <<>>
    /\ returned = ""

\* an exception leaves generate_flowcodes
Raise(exception) ==
    /\ pc' = "raised"
    /\ raised' = exception

\* STEP ZERO: _error_checking, then the selection of the two columns and
\* campaigns = dataset[campaign_column_name].unique()
StepZero ==
    /\ pc = "error_checking"
    /\ LET check == _error_checking(call.client_id, call.dataset,
                                    id_column_name, campaign_column_name)
       IN  IF check # "ok"
           THEN /\ Raise(check)
                /\ UNCHANGED campaigns
           ELSE /\ campaigns' = unique(Column(call.dataset.rows, campaign_column_name))
                /\ pc' = "generate_campaigns"
                /\ UNCHANGED raised
    /\ UNCHANGED <<call, index, flowcodes, responses, generated_urls,
                   position, disk, log, returned>>

\* StepOne with an except clause that re-raises every HTTPError, 409 included
StepOne_ConflictRaises ==
    /\ pc = "generate_campaigns"
    /\ index <= Len(campaigns)
    /\ \E status \in PostOutcomes :
          /\ log' = Append(log, Event("POST bulk-campaign",
                                      Format(campaigns[index]), status, NoBody))
          /\ IF status = OK
             THEN /\ index' = index + 1
                  /\ UNCHANGED <<pc, raised>>
             ELSE /\ Raise("campaign request failed")
                  /\ UNCHANGED index
    /\ UNCHANGED <<call, campaigns, flowcodes, responses, generated_urls,
                   position, disk, returned>>

\* STEP ONE: one turn of the loop of _generate_campaigns: the POST for
\* campaigns[index] and the handling of its answer
StepOne ==
    /\ pc = "generate_campaigns"
    /\ index <= Len(campaigns)
    /\ \E status \in PostOutcomes :
          /\ log' = Append(log, Event("POST bulk-campaign",
                                      Format(campaigns[index]), status, NoBody))
          /\ IF status = OK \/ status = Conflict
             THEN /\ index' = index + 1
                  /\ UNCHANGED <<pc, raised>>
             ELSE /\ Raise("campaign request failed")
                  /\ UNCHANGED index
    /\ UNCHANGED <<call, campaigns, flowcodes, responses, generated_urls,
                   position, disk, returned>>

\* STEP TWO: _generate_campaigns returns and _preprocess_urls runs
StepTwo ==
    /\ pc = "generate_campaigns"
    /\ index > Len(campaigns)
    /\ LET built == _preprocess_urls(campaigns, id_column_name, campaign_column_name,
                                     redirect_url, call.dataset.rows,
                                     call.pass_id_as_argument)
       IN  IF built.raised
           THEN /\ Raise("UnboundLocalError")
                /\ UNCHANGED <<flowcodes, index>>
           ELSE /\ flowcodes' = built.flowcodes
                /\ index' = 1
                /\ pc' = "generate_urls"
                /\ UNCHANGED raised
    /\ UNCHANGED <<call, campaigns, responses, generated_urls,
                   position, disk, log, returned>>

\* StepThree with an except clause that skips on every HTTPError, whatever
\* its status
StepThree_ErrorSkipped ==
    /\ pc = "generate_urls"
    /\ index <= Len(flowcodes)
    /\ IF flowcodes[index] = <<>>
       THEN /\ index' = index + 1
            /\ UNCHANGED <<pc, raised, responses, log>>
       ELSE \E status \in PostOutcomes :
            \E body \in (IF status = OK
                         THEN Bodies(index, flowcodes[index])
                         ELSE {NoBody}) :
               /\ log' = Append(log, Event("POST bulk",
                                           Format(campaigns[index]), status, body))
               /\ IF status = OK
                  THEN /\ responses' = DictSet(responses, Format(campaigns[index]), body)
                       /\ index' = index + 1
                       /\ UNCHANGED <<pc, raised>>
                  ELSE IF status \in ErrorStatuses
                  THEN /\ index' = index + 1
                       /\ UNCHANGED <<pc, raised, responses>>
                  ELSE /\ Raise("batch request failed")
                       /\ UNCHANGED <<index, responses>>
    /\ UNCHANGED <<call, campaigns, flowcodes, generated_urls,
                   position, disk, returned>>

\* STEP THREE: one turn of the loop of _generate_urls
StepThree ==
    /\ pc = "generate_urls"
    /\ index <= Len(flowcodes)
    /\ IF flowcodes[index] = <<>>
       THEN /\ index' = index + 1
            /\ UNCHANGED <<pc, raised, responses, log>>
       ELSE \E status \in PostOutcomes :
            \E body \in (IF status = OK
                         THEN Bodies(index, flowcodes[index])
                         ELSE {NoBody}) :
               /\ log' = Append(log, Event("POST bulk",
                                           Format(campaigns[index]), status, body))
               /\ IF status = OK
                  THEN /\ responses' = DictSet(responses, Format(campaigns[index]), body)
                       /\ index' = index + 1
                       /\ UNCHANGED <<pc, raised>>
                  ELSE IF status = Conflict
                  THEN /\ index' = index + 1
                       /\ UNCHANGED <<pc, raised, responses>>
                  ELSE /\ Raise("batch request failed")
                       /\ UNCHANGED <<index, responses>>
    /\ UNCHANGED <<call, campaigns, flowcodes, generated_urls,
                   position, disk, returned>>

\* StepFour with the images folder created before the responses are parsed
StepFour_FolderFirst ==
    /\ pc = "generate_urls"
    /\ index > Len(flowcodes)
    /\ disk' = [disk EXCEPT !.dirs = @ \cup {root_dir}]
    /\ LET processed == _process_url_responses(responses)
       IN  IF processed.raised
           THEN /\ Raise("response processing failed")
                /\ UNCHANGED generated_urls
           ELSE /\ generated_urls' = processed.generated_urls
                /\ pc' = "generate_svgs"
                /\ UNCHANGED raised
    /\ UNCHANGED <<call, campaigns, index, flowcodes, responses,
                   position, log, returned>>

\* STEP FOUR: _generate_urls returns and _process_url_responses runs
StepFour ==
    /\ pc = "generate_urls"
    /\ index > Len(flowcodes)
    /\ LET processed == _process_url_responses(responses)
       IN  IF processed.raised
           THEN /\ Raise("response processing failed")
                /\ UNCHANGED generated_urls
           ELSE /\ generated_urls' = processed.generated_urls
                /\ pc' = "generate_svgs"
                /\ UNCHANGED raised
    /\ UNCHANGED <<call, campaigns, index, flowcodes, responses,
                   position, disk, log, returned>>

\* STEP FIVE, start of _generate_svgs: the images folder is created unless
\* it exists
MakeRootDir ==
    /\ pc = "generate_svgs"
    /\ IF root_dir \notin disk.dirs
       THEN /\ disk' = [disk EXCEPT !.dirs = @ \cup {root_dir}]
            /\ log' = Append(log, Event("mkdir", root_dir, OK, NoBody))
       ELSE UNCHANGED <<disk, log>>
    /\ index' = 1
    /\ pc' = "campaign_dir"
    /\ UNCHANGED <<call, raised, campaigns, flowcodes, responses,
                   generated_urls, position, returned>>

\* os.mkdir(campaign_dir) for generated_urls[index]; FileExistsError when
\* the folder is there
MakeCampaignDir ==
    /\ pc = "campaign_dir"
    /\ index <= Len(generated_urls)
    /\ LET dir == CampaignDir(generated_urls[index].key)
       IN  IF dir \in disk.dirs
           THEN /\ Raise("FileExistsError")
                /\ UNCHANGED <<disk, log, position>>
           ELSE /\ disk' = [disk EXCEPT !.dirs = @ \cup {dir}]
                /\ log' = Append(log, Event("mkdir", dir, OK, NoBody))
                /\ position' = 1
                /\ pc' = "images"
                /\ UNCHANGED raised
    /\ UNCHANGED <<call, campaigns, index, flowcodes, responses,
                   generated_urls, returned>>

\* one turn of the inner loop of _generate_svgs: the GET of the image and
\* the write of the file.  The status of the answer is not looked at; only
\* an exception of requests.get ends the run.
SaveImage ==
    /\ pc = "images"
    /\ position <= Len(generated_urls[index].value)
    /\ LET url_object == generated_urls[index].value[position]
           file_url   == FileUrl(generated_urls[index].key, url_object.id)
       IN  \E status \in {OK, NoResponse} :
              IF status = NoResponse
              THEN /\ log' = Append(log, Event("GET", url_object.qr_code, status, NoBody))
                   /\ Raise("image request failed")
                   /\ UNCHANGED <<disk, position>>
              ELSE /\ log' = log \o <<Event("GET", url_object.qr_code, status, NoBody),
                                      Event("write", file_url, OK, NoBody)>>
                   /\ disk' = [disk EXCEPT
                                  !.files = (file_url :> Content(url_object.qr_code)) @@ @]
                   /\ position' = position + 1
                   /\ UNCHANGED <<pc, raised>>
    /\ UNCHANGED <<call, campaigns, index, flowcodes, responses,
                   generated_urls, returned>>

\* NextCampaign with the return statement inside the outer loop
NextCampaign_ReturnInLoop ==
    /\ pc = "images"
    /\ position > Len(generated_urls[index].value)
    /\ pc' = "returned"
    /\ returned' = "Flowcodes Generated"
    /\ UNCHANGED <<call, raised, campaigns, index, flowcodes, responses,
                   generated_urls, position, disk, log>>

\* the inner loop is over: on to the next campaign
NextCampaign ==
    /\ pc = "images"
    /\ position > Len(generated_urls[index].value)
    /\ index' = index + 1
    /\ pc' = "campaign_dir"
    /\ UNCHANGED <<call, raised, campaigns, flowcodes, responses,
                   generated_urls, position, disk, log, returned>>

\* _generate_svgs returns; return "Flowcodes Generated"
Return ==
    /\ pc = "campaign_dir"
    /\ index > Len(generated_urls)
    /\ pc' = "returned"
    /\ returned' = "Flowcodes Generated"
    /\ UNCHANGED <<call, raised, campaigns, index, flowcodes, responses,
                   generated_urls, position, disk, log>>

Next ==
    \/ StepZero
    \/ StepOne
    \/ StepTwo
    \/ StepThree
    \/ StepFour
    \/ MakeRootDir
    \/ MakeCampaignDir
    \/ SaveImage
    \/ NextCampaign
    \/ Return

Spec == Init /\ [][Next]_vars

(***************************************************************************)
(* What the properties below speak about.                                  *)
(***************************************************************************)
Requests(op) == SelectSeq(log, LAMBDA event : event.op = op)
CreateRequests == Requests("POST bulk-campaign")
BatchRequests == Requests("POST bulk")

ValidationErrors ==
    {"client_id_not_a_string", "client_id_format", "dataset_not_a_dataframe",
     "id_column", "campaigns_column"}
\* exceptions that leave _generate_svgs
SvgErrors == {"FileExistsError", "image request failed"}

\* _preprocess_urls has run, to its end or to an exception
Preprocessed ==
    \/ pc \in {"generate_urls", "generate_svgs", "campaign_dir", "images", "returned"}
    \/ /\ pc = "raised"
       /\ raised \notin ValidationErrors \cup {"campaign request failed"}

RECURSIVE Flatten(_)
Flatten(seqs) == IF seqs = <<>> THEN <<>> ELSE Head(seqs) \o Flatten(Tail(seqs))

(***************************************************************************)
(* C1.  When the validation of the call fails (client id no string or not  *)
(* of the pattern, dataset no table, id or campaign column absent), the    *)
(* run raises at once: no request is issued, no directory or file is       *)
(* created and nothing is returned.                                        *)
(***************************************************************************)
InvalidCall ==
    \/ ~call.client_id.is_str
    \/ ~fullmatch(regex, call.client_id.chars)
    \/ ~call.dataset.is_dataframe
    \/ id_column_name \notin call.dataset.columns
    \/ campaign_column_name \notin call.dataset.columns

C1_InvalidCallHasNoEffect ==
    InvalidCall =>
        /\ pc \in {"error_checking", "raised"}
        /\ pc = "raised" => raised \in ValidationErrors
        /\ log = <<>>
        /\ disk = call.disk
        /\ returned = ""

C1_Witness ==
    /\ pc = "raised"
    /\ raised = "client_id_format"
    /\ call.client_id.chars = LongId
    /\ call.dataset.is_dataframe
    /\ call.dataset.columns = AllColumns
    /\ call.dataset.rows # <<>>

(***************************************************************************)
(* C2.  The validator rejects a string client id for its format exactly    *)
(* when it is not five dash-separated groups of 8, 4, 4, 4 and 12          *)
(* characters out of 0-9 and a-f.                                          *)
(***************************************************************************)
HexDigits == Digits \cup {"a", "b", "c", "d", "e", "f"}
CanonicalUuid(chars) ==
    /\ Len(chars) = 36
    /\ \A k \in 1..36 :
          IF k \in {9, 14, 19, 24} THEN chars[k] = "-" ELSE chars[k] \in HexDigits

C2_OnlyCanonicalUuidAccepted ==
    (pc # "error_checking" /\ call.client_id.is_str) =>
        (raised = "client_id_format" <=> ~CanonicalUuid(call.client_id.chars))

(***************************************************************************)
(* C3.  With pass_id_as_argument false and a table of at least one row,    *)
(* _preprocess_urls ends without an exception and yields one record per    *)
(* row, with the id of the row and the bare redirect target as url.        *)
(***************************************************************************)
C3_BareUrlForEveryRow ==
    (Preprocessed /\ ~call.pass_id_as_argument /\ call.dataset.rows # <<>>) =>
        /\ raised # "UnboundLocalError"
        /\ LET records == Flatten(flowcodes)
           IN  /\ Len(records) = Len(call.dataset.rows)
               /\ \A k \in 1..Len(records) : records[k].url = redirect_url
               /\ \A k \in 1..Len(call.dataset.rows) :
                     \E j \in 1..Len(records) :
                        records[j].id = Format(call.dataset.rows[k][id_column_name])

(***************************************************************************)
(* C4.  A create-campaign request answered with 409 neither raises nor     *)
(* ends the loop: the requests issued are those for the campaigns in list  *)
(* order, one each, the list being the distinct values of the campaign     *)
(* column in order of first appearance; when every answer is a success or  *)
(* a 409 all of them are issued and the run goes on to build the URLs.     *)
(***************************************************************************)
FirstRow(value) ==
    CHOOSE k \in 1..Len(call.dataset.rows) :
        /\ call.dataset.rows[k][campaign_column_name] = value
        /\ \A j \in 1..(k - 1) : call.dataset.rows[j][campaign_column_name] # value

FirstSeenOrder ==
    /\ \A k \in 1..Len(call.dataset.rows) :
          \E c \in 1..Len(campaigns) :
             campaigns[c] = call.dataset.rows[k][campaign_column_name]
    /\ \A c \in 1..Len(campaigns) :
          \E k \in 1..Len(call.dataset.rows) :
             campaigns[c] = call.dataset.rows[k][campaign_column_name]
    /\ \A c, d \in 1..Len(campaigns) :
          c < d => FirstRow(campaigns[c]) < FirstRow(campaigns[d])

AllHandled(requests) ==
    \A k \in 1..Len(requests) : requests[k].status \in {OK, Conflict}

C4_ConflictDoesNotStopCampaigns ==
    /\ pc # "error_checking" /\ raised \notin ValidationErrors => FirstSeenOrder
    /\ Len(CreateRequests) <= Len(campaigns)
    /\ \A k \in 1..Len(CreateRequests) :
          CreateRequests[k].target = Format(campaigns[k])
    /\ AllHandled(CreateRequests) =>
          /\ raised # "campaign request failed"
          /\ pc # "generate_campaigns" /\ pc # "error_checking" =>
                Len(CreateRequests) = Len(campaigns)

C4_Witness ==
    /\ pc = "generate_urls"
    /\ Len(CreateRequests) = 2
    /\ CreateRequests[1].status = Conflict
    /\ CreateRequests[2].status = OK
    /\ CreateRequests[1].target # CreateRequests[2].target

(***************************************************************************)
(* C5.  A create-campaign or batch request answered with an HTTP error     *)
(* status other than 409 ends the run with that error: it is the last      *)
(* thing the run does, so no later request is issued, no image is          *)
(* downloaded, nothing is written, and nothing is returned.                *)
(***************************************************************************)
FatalStatuses == ErrorStatuses \ {Conflict}

C5_OtherErrorAbortsRun ==
    \A k \in 1..Len(log) :
        (log[k].op \in {"POST bulk-campaign", "POST bulk"}
            /\ log[k].status \in FatalStatuses) =>
            /\ k = Len(log)
            /\ pc = "raised"
            /\ raised = (IF log[k].op = "POST bulk"
                         THEN "batch request failed"
                         ELSE "campaign request failed")
            /\ returned = ""
            /\ disk = call.disk

C5_Witness ==
    /\ pc = "raised"
    /\ Len(BatchRequests) = 1
    /\ BatchRequests[1].status \in FatalStatuses
    /\ index < Len(flowcodes)
    /\ flowcodes[index + 1] # <<>>

(***************************************************************************)
(* C6, as claimed.  A run that ends with an exception, whatever the stage, *)
(* leaves no image file behind.                                            *)
(***************************************************************************)
C6_FailedRunWritesNoFile ==
    pc = "raised" => disk.files = call.disk.files

(***************************************************************************)
(* C6, amended.  A run that ends with an exception of a stage before the   *)
(* image materializer (validation, campaign creation, URL building, batch  *)
(* submission, response processing) has created no directory and no file;  *)
(* a run that ends with an exception inside the image materializer keeps   *)
(* the files it wrote before, which are the files its log records.         *)
(***************************************************************************)
WrittenFiles == {event.target : event \in {log[k] : k \in {j \in 1..Len(log) : log[j].op = "write"}}}

C6_FailureBeforeImagesWritesNothing ==
    pc = "raised" =>
        /\ raised \notin SvgErrors => disk = call.disk
        /\ DOMAIN disk.files = DOMAIN call.disk.files \cup WrittenFiles

C6_Witness ==
    /\ pc = "raised"
    /\ raised = "response processing failed"
    /\ Len(BatchRequests) = 2
    /\ BatchRequests[1].status = OK
    /\ BatchRequests[1].body.json

(***************************************************************************)
(* C7.  The sequences built by _preprocess_urls partition the rows: the    *)
(* sequence at position k holds one record for each row whose campaign     *)
(* value is campaigns[k], in table order, so that every row has exactly    *)
(* one record, in the sequence at the position of its own campaign.        *)
(***************************************************************************)
RowsWithCampaign(value) ==
    SelectSeq(call.dataset.rows, LAMBDA row : row[campaign_column_name] = value)

C7_SequencesPartitionRows ==
    (Preprocessed /\ raised # "UnboundLocalError") =>
        /\ Len(flowcodes) = Len(campaigns)
        /\ \A k \in 1..Len(campaigns) :
              LET own == RowsWithCampaign(campaigns[k])
              IN  /\ Len(flowcodes[k]) = Len(own)
                  /\ \A j \in 1..Len(own) :
                        flowcodes[k][j].id = Format(own[j][id_column_name])
        /\ Len(Flatten(flowcodes)) = Len(call.dataset.rows)

(***************************************************************************)
(* C8.  When _generate_urls has returned, one batch request has been       *)
(* issued for each campaign with a non-empty sequence and none for the     *)
(* others, in list order; the result holds an entry under a campaign's     *)
(* name exactly when the submission of that campaign succeeded, and the    *)
(* entry is the response to that campaign's own submission.                *)
(***************************************************************************)
UrlsReturned ==
    \/ pc \in {"generate_svgs", "campaign_dir", "images", "returned"}
    \/ pc = "raised" /\ raised \in {"response processing failed"} \cup SvgErrors

\* the positions of the campaigns with a non-empty sequence, in list order
NonEmpty ==
    SelectSeq([k \in 1..Len(flowcodes) |-> k], LAMBDA k : flowcodes[k] # <<>>)

Succeeded(k) ==
    \E j \in 1..Len(NonEmpty) : NonEmpty[j] = k /\ BatchRequests[j].status = OK

C8_OneEntryPerSuccessfulCampaign ==
    UrlsReturned =>
        /\ Len(BatchRequests) = Len(NonEmpty)
        /\ \A j \in 1..Len(NonEmpty) :
              BatchRequests[j].target = Format(campaigns[NonEmpty[j]])
        /\ \A k \in 1..Len(campaigns) :
              HasKey(responses, Format(campaigns[k])) <=> Succeeded(k)
        /\ \A j \in 1..Len(NonEmpty) :
              BatchRequests[j].status = OK =>
                 DictGet(responses, Format(campaigns[NonEmpty[j]])) = BatchRequests[j].body

(***************************************************************************)
(* C9.  After a run that returned the success marker, the image files are  *)
(* one file <campaign>/<id>.svg for each entry of each successful batch    *)
(* response, holding the bytes served at the first image URL of the entry; *)
(* a campaign whose submission was answered with 409 got no directory.     *)
(***************************************************************************)
FilesOnDisk == {[path |-> path, content |-> disk.files[path]] : path \in DOMAIN disk.files}

ExpectedFiles ==
    UNION {
        {[path    |-> FileUrl(BatchRequests[j].target, BatchRequests[j].body.entries[e].id),
          content |-> Content(BatchRequests[j].body.entries[e].images[1].url)]
            : e \in 1..Len(BatchRequests[j].body.entries)}
        : j \in {i \in 1..Len(BatchRequests) : BatchRequests[i].status = OK}}

C9_FilesAreTheSuccessfulEntries ==
    returned = "Flowcodes Generated" =>
        /\ FilesOnDisk = ExpectedFiles
        /\ \A j \in 1..Len(BatchRequests) :
              BatchRequests[j].status = Conflict =>
                 CampaignDir(BatchRequests[j].target) \notin disk.dirs \ call.disk.dirs

(***************************************************************************)
(* C10.  The events of a run are ordered by stage: every create-campaign   *)
(* request comes before every batch request, every batch request before    *)
(* every directory creation, image download and file write; an image is    *)
(* written right after its download; and the success marker is returned    *)
(* only when every image of every campaign has been downloaded and         *)
(* written, the write of the last image of the last campaign being the     *)
(* last event.                                                             *)
(***************************************************************************)
Stage(event) ==
    IF event.op = "POST bulk-campaign" THEN "campaigns"
    ELSE IF event.op = "POST bulk" THEN "urls"
    ELSE "svgs"
Before(a, b) == a = b \/ a = "campaigns" \/ b = "svgs"

AllImages ==
    UNION {{FileUrl(generated_urls[k].key, generated_urls[k].value[j].id)
               : j \in 1..Len(generated_urls[k].value)}
           : k \in 1..Len(generated_urls)}

LastImage ==
    LET k == CHOOSE c \in 1..Len(generated_urls) :
                /\ generated_urls[c].value # <<>>
                /\ \A d \in (c + 1)..Len(generated_urls) : generated_urls[d].value = <<>>
    IN  FileUrl(generated_urls[k].key,
                generated_urls[k].value[Len(generated_urls[k].value)].id)

C10_StagesInOrder ==
    /\ \A i, j \in 1..Len(log) : i < j => Before(Stage(log[i]), Stage(log[j]))
    /\ \A i \in 1..Len(log) :
          log[i].op = "write" => i > 1 /\ log[i - 1].op = "GET" /\ log[i - 1].status = OK
    /\ \A i \in 1..Len(log) :
          log[i].op = "GET" /\ i < Len(log) => log[i + 1].op = "write"
    /\ returned # "" =>
          /\ returned = "Flowcodes Generated"
          /\ pc = "returned"
          /\ AllImages \subseteq WrittenFiles
          /\ Len(Requests("write")) = Len(Flatten([k \in 1..Len(generated_urls) |->
                                                       generated_urls[k].value]))
          /\ AllImages # {} =>
                log[Len(log)].op = "write" /\ log[Len(log)].target = LastImage

C10_Witness ==
    /\ returned = "Flowcodes Generated"
    /\ Len(generated_urls) = 2
    /\ generated_urls[1].value # <<>>
    /\ generated_urls[2].value # <<>>
    /\ Len(CreateRequests) = 2

====
